---- MODULE Spec2Model ----
(***************************************************************************)
(* A model of shaxbee/go-wsproxy (wsproxy.go): one incoming HTTP request   *)
(* served by WebSocketProxy.ServeHTTP.  A request that asks for the        *)
(* websocket upgrade becomes a session run by proxy(): the optional token  *)
(* read, the two io.Pipe conduits, the wrapped handler's goroutine, the    *)
(* listenWrite goroutine and listenRead, which proxy() runs itself.        *)
(*                                                                         *)
(* Byte strings (messages, lines, header values) are sequences of          *)
(* one-character strings.  The wrapped handler and the websocket client    *)
(* are the environment: they act nondeterministically.                     *)
(*                                                                         *)
(* io.Pipe is synchronous: a Write parks its bytes in the pipe and returns *)
(* only when the reading side has taken them all (or the read end is       *)
(* closed).  inPending / outPending are the bytes of the Write in progress *)
(* on the inbound / outbound pipe.  The bufio buffers (4096 bytes) are     *)
(* larger than any write of the bounded runs, so one fill of the           *)
(* bufio.Reader takes every parked byte.                                   *)
(***************************************************************************)
EXTENDS Integers, Sequences, FiniteSets, TLC

\* ------------------------------------------------------------------ bounds
\* how many messages the client sends, how many bytes the handler writes
MaxMsgs == 2
MaxWritten == 2

NL == "\n"

\* the messages a client sends: one without and one with a line terminator
Msgs == { <<"a">>, <<NL>> }
\* the byte slices a handler passes to Write: part of a line, the rest of a
\* line, a whole line, two lines at once
Chunks == { <<"a">>, <<NL>>, <<"a", NL>>, <<NL, NL>> }

\* ------------------------------------------------------- strings and bytes
UpperCase == <<"A","B","C","D","E","F","G","H","I","J","K","L","M",
               "N","O","P","Q","R","S","T","U","V","W","X","Y","Z">>
LowerCase == <<"a","b","c","d","e","f","g","h","i","j","k","l","m",
               "n","o","p","q","r","s","t","u","v","w","x","y","z">>

\* strings.ToLower, character by character
LowerOf == [ch \in {UpperCase[k] : k \in 1..Len(UpperCase)} |->
               LowerCase[CHOOSE k \in 1..Len(UpperCase) : UpperCase[k] = ch]]
ToLower(s) ==
    [i \in 1..Len(s) |-> IF s[i] \in DOMAIN LowerOf THEN LowerOf[s[i]] ELSE s[i]]

websocket == <<"w","e","b","s","o","c","k","e","t">>
Bearer == <<"B","e","a","r","e","r"," ">>

\* http.Header as a set of <<name, value>> pairs; nil is the empty set.
HeaderGet(h, k) ==
    IF \E p \in h : p[1] = k THEN (CHOOSE p \in h : p[1] = k)[2] ELSE <<>>

\* position of the first delim in buf, 0 when there is none
IndexByte(buf, delim) ==
    IF \E i \in 1..Len(buf) : buf[i] = delim
    THEN CHOOSE i \in 1..Len(buf) :
            buf[i] = delim /\ \A j \in 1..(i - 1) : buf[j] # delim
    ELSE 0

\* bufio.Reader.ReadBytes('\n') on buffered bytes: everything up to and
\* including the first terminator.
ReadBytes_WholeBuffer(buf) == buf
ReadBytes(buf) == SubSeq(buf, 1, IndexByte(buf, NL))

\* what listenRead writes into the request body for one message:
\* w.WriteString(m); w.WriteRune('\n')
RequestLine_NoTerminator(m) == m
RequestLine(m) == m \o <<NL>>

\* ------------------------------------------------------------ the request
RewriteMethods == {"", "POST"}

\* the requests of the runs: plain ones, and upgrade requests whose Upgrade
\* value is spelled in lower and in mixed case
Requests ==
    { [Method |-> "GET", Header |-> {}],
      [Method |-> "PUT", Header |-> {<<"Upgrade", <<"h","2","c">> >>,
                                     <<"Authorization", <<"x">> >>}],
      [Method |-> "GET", Header |-> {<<"Upgrade", websocket>>}],
      [Method |-> "PUT", Header |-> {<<"Upgrade", <<"W","e","b","S","o","c","k","e","t">> >>,
                                     <<"Authorization", <<"x">> >>}] }

Configs == [ReadToken : BOOLEAN, RewriteMethod : RewriteMethods]

PipeEnds == {"orp", "iwp", "irp", "owp"}

VARIABLES
    c,           \* wp.c, the Config
    r,           \* the incoming *http.Request
    path,        \* which branch of ServeHTTP ran: "none", "direct", "proxy"
    calls,       \* the invocations of wp.h.ServeHTTP so far, in order
    ppc,         \* where proxy() is
    header,      \* proxy's local header
    authFailed,  \* the token Receive returned an error
    cancelled,   \* ctx of proxy has been cancelled
    wsClosed,    \* ws.Close() has run on the server side
    pipesMade,   \* both io.Pipe() calls have run
    closedEnds,  \* the pipe ends that have been closed
    inPending,   \* inbound pipe (owp -> irp): bytes of the Write in progress
    outPending,  \* outbound pipe (iwp -> orp): bytes of the Write in progress
    lrpc,        \* where listenRead is
    wlpc,        \* where listenWrite is
    rbuf,        \* listenWrite's bufio.Reader: bytes read from orp, not yet returned
    b,           \* listenWrite's b, the line about to be sent
    hpc,         \* where the handler's goroutine is
    body,        \* every byte the handler has read from its request body
    bodyEOF,     \* the handler has read io.EOF from its request body
    written,     \* every byte the handler has passed to Write on its response writer
    conn,        \* the transport: "open", "closed" (by the client), "rxErr", "txErr"
    sent,        \* every message the client has sent
    rcvd,        \* how many of them the server has received
    clientRecv   \* every message the client has received

vars == << c, r, path, calls, ppc, header, authFailed, cancelled, wsClosed,
           pipesMade, closedEnds, inPending, outPending, lrpc, wlpc, rbuf, b,
           hpc, body, bodyEOF, written, conn, sent, rcvd, clientRecv >>

cfgVars  == << c, r >>
wsVars   == << conn, sent, rcvd, clientRecv >>
hVars    == << hpc, body, bodyEOF, written >>
wlVars   == << wlpc, rbuf, b >>

Init ==
    /\ c \in Configs
    /\ r \in Requests
    /\ path = "none"
    /\ calls = <<>>
    /\ ppc = "idle"
    /\ header = {}
    /\ authFailed = FALSE
    /\ cancelled = FALSE
    /\ wsClosed = FALSE
    /\ pipesMade = FALSE
    /\ closedEnds = {}
    /\ inPending = <<>>
    /\ outPending = <<>>
    /\ lrpc = "idle"
    /\ wlpc = "idle"
    /\ rbuf = <<>>
    /\ b = <<>>
    /\ hpc = "idle"
    /\ body = <<>>
    /\ bodyEOF = FALSE
    /\ written = <<>>
    /\ conn = "open"
    /\ sent = <<>>
    /\ rcvd = 0
    /\ clientRecv = <<>>

\* ---------------------------------------------------------------- ServeHTTP
IsWebsocketUpgrade_CaseSensitive(req) == HeaderGet(req.Header, "Upgrade") = websocket
IsWebsocketUpgrade(req) == ToLower(HeaderGet(req.Header, "Upgrade")) = websocket

\* wp.h.ServeHTTP(w, r); return
ServeHTTPDirect ==
    /\ path = "none"
    /\ ~IsWebsocketUpgrade(r)
    /\ path' = "direct"
    /\ calls' = Append(calls, [w |-> "w", Method |-> r.Method, Header |-> r.Header,
                               Body |-> "r.Body", Proto |-> "r.Proto",
                               Cancel |-> "r.Cancel"])
    /\ UNCHANGED << c, r, ppc, header, authFailed, cancelled, wsClosed, pipesMade,
                    closedEnds, inPending, outPending, lrpc, wlVars, hVars, wsVars >>

\* a proxy whose receive loop is already running during the token read
ServeHTTPUpgrade_LoopsFirst ==
    /\ path = "none"
    /\ IsWebsocketUpgrade(r)
    /\ path' = "proxy"
    /\ ppc' = IF c.ReadToken THEN "auth" ELSE "setup"
    /\ lrpc' = "loop"
    /\ UNCHANGED << c, r, calls, header, authFailed, cancelled, wsClosed, pipesMade,
                    closedEnds, inPending, outPending, wlVars, hVars, wsVars >>

\* wsh.ServeHTTP(w, r), which runs wp.proxy(r, ws) on the upgraded connection
ServeHTTPUpgrade ==
    /\ path = "none"
    /\ IsWebsocketUpgrade(r)
    /\ path' = "proxy"
    /\ ppc' = IF c.ReadToken THEN "auth" ELSE "setup"
    /\ UNCHANGED << c, r, calls, header, authFailed, cancelled, wsClosed, pipesMade,
                    closedEnds, inPending, outPending, lrpc, wlVars, hVars, wsVars >>

\* --------------------------------------------------------------- websocket
\* websocket.Message.Receive(ws, &m): the next message the client sent, io.EOF
\* once the client has closed and everything it sent was received, another
\* error on a broken or locally closed connection; it blocks otherwise.
ReceiveReady == ~wsClosed /\ conn # "rxErr" /\ rcvd < Len(sent)
ReceiveEOF   == ~wsClosed /\ conn = "closed" /\ rcvd = Len(sent)
ReceiveError == wsClosed \/ conn = "rxErr"

\* -------------------------------------------------------------------- proxy
\* header = http.Header{"Authorization": {"Bearer " + tok}}
AuthHeader_NoScheme(tok) == {<<"Authorization", tok>>}
AuthHeader(tok) == {<<"Authorization", Bearer \o tok>>}

\* if wp.c.RewriteMethod != "" { method = wp.c.RewriteMethod } else { method = req.Method }
AdaptedMethod_Original(cfg, req) == req.Method
AdaptedMethod(cfg, req) ==
    IF cfg.RewriteMethod # "" THEN cfg.RewriteMethod ELSE req.Method

\* the request and response writer proxy hands to the handler
AdaptedCall ==
    [w      |-> "respForwarder(iwp)",
     Method |-> AdaptedMethod(c, r),
     Header |-> header,
     Body   |-> "irp",
     Proto  |-> "HTTP/2",
     Cancel |-> "r.Cancel"]

\* a token read that leaves the token message to be received again
proxyReadToken_Peek ==
    /\ ppc = "auth"
    /\ ReceiveReady
    /\ header' = AuthHeader(sent[rcvd + 1])
    /\ rcvd' = rcvd
    /\ ppc' = "setup"
    /\ UNCHANGED << cfgVars, path, calls, authFailed, cancelled, wsClosed, pipesMade,
                    closedEnds, inPending, outPending, lrpc, wlVars, hVars,
                    conn, sent, clientRecv >>

\* if wp.c.ReadToken: the token message arrives
proxyReadToken ==
    /\ ppc = "auth"
    /\ ReceiveReady
    /\ header' = AuthHeader(sent[rcvd + 1])
    /\ rcvd' = rcvd + 1
    /\ ppc' = "setup"
    /\ UNCHANGED << cfgVars, path, calls, authFailed, cancelled, wsClosed, pipesMade,
                    closedEnds, inPending, outPending, lrpc, wlVars, hVars,
                    conn, sent, clientRecv >>

\* a failed token read that went on to build the session all the same
proxyReadTokenFail_Continue ==
    /\ ppc = "auth"
    /\ ReceiveEOF \/ ReceiveError
    /\ authFailed' = TRUE
    /\ ppc' = "setup"
    /\ UNCHANGED << cfgVars, path, calls, header, cancelled, wsClosed, pipesMade,
                    closedEnds, inPending, outPending, lrpc, wlVars, hVars, wsVars >>

\* if err := websocket.Message.Receive(ws, &tok); err != nil { return }
\* the deferred cancel() and ws.Close() are what is left to run
proxyReadTokenFail ==
    /\ ppc = "auth"
    /\ ReceiveEOF \/ ReceiveError
    /\ authFailed' = TRUE
    /\ ppc' = "ret_cancel"
    /\ UNCHANGED << cfgVars, path, calls, header, cancelled, wsClosed, pipesMade,
                    closedEnds, inPending, outPending, lrpc, wlVars, hVars, wsVars >>

\* a proxy that starts the loops without invoking the handler
proxySetup_NoHandler ==
    /\ ppc = "setup"
    /\ pipesMade' = TRUE
    /\ calls' = calls
    /\ hpc' = "run"
    /\ wlpc' = "loop"
    /\ lrpc' = "loop"
    /\ ppc' = "streaming"
    /\ UNCHANGED << cfgVars, path, header, authFailed, cancelled, wsClosed,
                    closedEnds, inPending, outPending, rbuf, b,
                    body, bodyEOF, written, wsVars >>

\* the two io.Pipe(), defer owp.Close(), go wp.h.ServeHTTP(...),
\* go listenWrite(...), and the call of listenRead(...)
proxySetup ==
    /\ ppc = "setup"
    /\ pipesMade' = TRUE
    /\ calls' = Append(calls, AdaptedCall)
    /\ hpc' = "run"
    /\ wlpc' = "loop"
    /\ lrpc' = "loop"
    /\ ppc' = "streaming"
    /\ UNCHANGED << cfgVars, path, header, authFailed, cancelled, wsClosed,
                    closedEnds, inPending, outPending, rbuf, b,
                    body, bodyEOF, written, wsVars >>

\* a proxy that returns without the deferred owp.Close()
proxyCloseOwp_Skip ==
    /\ ppc = "ret_owp"
    /\ ppc' = "ret_cancel"
    /\ UNCHANGED << cfgVars, path, calls, header, authFailed, cancelled, wsClosed,
                    pipesMade, closedEnds, inPending, outPending, lrpc, wlVars,
                    hVars, wsVars >>

\* listenRead has returned: deferred owp.Close()
proxyCloseOwp ==
    /\ ppc = "ret_owp"
    /\ closedEnds' = closedEnds \cup {"owp"}
    /\ ppc' = "ret_cancel"
    /\ UNCHANGED << cfgVars, path, calls, header, authFailed, cancelled, wsClosed,
                    pipesMade, inPending, outPending, lrpc, wlVars, hVars, wsVars >>

\* deferred cancel()
proxyCancel ==
    /\ ppc = "ret_cancel"
    /\ cancelled' = TRUE
    /\ ppc' = "ret_ws"
    /\ UNCHANGED << cfgVars, path, calls, header, authFailed, wsClosed, pipesMade,
                    closedEnds, inPending, outPending, lrpc, wlVars, hVars, wsVars >>

\* deferred ws.Close(); proxy has returned
proxyCloseWs ==
    /\ ppc = "ret_ws"
    /\ wsClosed' = TRUE
    /\ ppc' = "done"
    /\ UNCHANGED << cfgVars, path, calls, header, authFailed, cancelled, pipesMade,
                    closedEnds, inPending, outPending, lrpc, wlVars, hVars, wsVars >>

\* --------------------------------------------------------------- listenRead
\* one iteration that receives a message: select on ctx.Done(), Receive,
\* w.WriteString(m), w.WriteRune('\n'), and w.Flush() begins its pipe Write
listenReadMessage ==
    /\ lrpc = "loop"
    /\ IF cancelled
       THEN /\ lrpc' = "exit"
            /\ ppc' = "ret_owp"
            /\ UNCHANGED << rcvd, inPending >>
       ELSE /\ ReceiveReady
            /\ rcvd' = rcvd + 1
            /\ inPending' = RequestLine(sent[rcvd + 1])
            /\ lrpc' = "flush"
            /\ ppc' = ppc
    /\ UNCHANGED << cfgVars, path, calls, header, authFailed, cancelled, wsClosed,
                    pipesMade, closedEnds, outPending, wlVars, hVars,
                    conn, sent, clientRecv >>

\* err == io.EOF: return
listenReadEOF ==
    /\ lrpc = "loop"
    /\ ~cancelled
    /\ ReceiveEOF
    /\ lrpc' = "exit"
    /\ ppc' = "ret_owp"
    /\ UNCHANGED << cfgVars, path, calls, header, authFailed, cancelled, wsClosed,
                    pipesMade, closedEnds, inPending, outPending, wlVars, hVars, wsVars >>

\* err != nil: glog.Errorf, return
listenReadError ==
    /\ lrpc = "loop"
    /\ ~cancelled
    /\ ReceiveError
    /\ lrpc' = "exit"
    /\ ppc' = "ret_owp"
    /\ UNCHANGED << cfgVars, path, calls, header, authFailed, cancelled, wsClosed,
                    pipesMade, closedEnds, inPending, outPending, wlVars, hVars, wsVars >>

\* w.Flush() returns nil: the handler has taken the whole line
listenReadFlushed ==
    /\ lrpc = "flush"
    /\ inPending = <<>>
    /\ lrpc' = "loop"
    /\ UNCHANGED << cfgVars, path, calls, ppc, header, authFailed, cancelled, wsClosed,
                    pipesMade, closedEnds, inPending, outPending, wlVars, hVars, wsVars >>

\* w.Flush() returns io.ErrClosedPipe (the handler closed its body): return
listenReadFlushError ==
    /\ lrpc = "flush"
    /\ inPending # <<>>
    /\ "irp" \in closedEnds
    /\ inPending' = <<>>
    /\ lrpc' = "exit"
    /\ ppc' = "ret_owp"
    /\ UNCHANGED << cfgVars, path, calls, header, authFailed, cancelled, wsClosed,
                    pipesMade, closedEnds, outPending, wlVars, hVars, wsVars >>

\* -------------------------------------------------------------- listenWrite
\* the top of an iteration: select on ctx.Done(), then r.ReadBytes('\n')
\* looks at what the bufio.Reader already holds
listenWriteLoop ==
    /\ wlpc = "loop"
    /\ IF cancelled
       THEN wlpc' = "exit" /\ UNCHANGED << rbuf, b >>
       ELSE IF IndexByte(rbuf, NL) # 0
            THEN /\ b' = ReadBytes(rbuf)
                 /\ rbuf' = SubSeq(rbuf, Len(ReadBytes(rbuf)) + 1, Len(rbuf))
                 /\ wlpc' = "send"
            ELSE wlpc' = "fill" /\ UNCHANGED << rbuf, b >>
    /\ UNCHANGED << cfgVars, path, calls, ppc, header, authFailed, cancelled, wsClosed,
                    pipesMade, closedEnds, inPending, outPending, lrpc, hVars, wsVars >>

\* a listenWrite that sends whatever a read of orp returned, terminated or not
listenWriteFill_SendPartial ==
    /\ wlpc = "fill"
    /\ outPending # <<>>
    /\ b' = rbuf \o outPending
    /\ rbuf' = <<>>
    /\ outPending' = <<>>
    /\ hpc' = IF hpc = "writing" THEN "run" ELSE hpc
    /\ wlpc' = "send"
    /\ UNCHANGED << cfgVars, path, calls, ppc, header, authFailed, cancelled, wsClosed,
                    pipesMade, closedEnds, inPending, lrpc, body, bodyEOF, written,
                    wsVars >>

\* r.ReadBytes('\n') reads orp: it takes the parked bytes of the handler's
\* Write (which then returns) and returns a line once it holds a terminator;
\* on io.EOF (iwp closed) it returns and listenWrite exits
listenWriteFill ==
    /\ wlpc = "fill"
    /\ IF outPending # <<>>
       THEN LET buf == rbuf \o outPending
            IN  /\ outPending' = <<>>
                /\ hpc' = IF hpc = "writing" THEN "run" ELSE hpc
                /\ IF IndexByte(buf, NL) # 0
                   THEN /\ b' = ReadBytes(buf)
                        /\ rbuf' = SubSeq(buf, Len(ReadBytes(buf)) + 1, Len(buf))
                        /\ wlpc' = "send"
                   ELSE /\ rbuf' = buf
                        /\ UNCHANGED << b, wlpc >>
       ELSE /\ "iwp" \in closedEnds
            /\ wlpc' = "exit"
            /\ UNCHANGED << outPending, hpc, rbuf, b >>
    /\ UNCHANGED << cfgVars, path, calls, ppc, header, authFailed, cancelled, wsClosed,
                    pipesMade, closedEnds, inPending, lrpc, body, bodyEOF, written,
                    wsVars >>

\* websocket.Message.Send(ws, b) succeeds and the client gets the message
listenWriteSend ==
    /\ wlpc = "send"
    /\ ~wsClosed
    /\ conn \in {"open", "rxErr"}
    /\ clientRecv' = Append(clientRecv, b)
    /\ wlpc' = "loop"
    /\ UNCHANGED << cfgVars, path, calls, ppc, header, authFailed, cancelled, wsClosed,
                    pipesMade, closedEnds, inPending, outPending, lrpc, rbuf, b,
                    hVars, conn, sent, rcvd >>

\* Send succeeds locally after the client has gone: nobody gets the message
listenWriteSendLost ==
    /\ wlpc = "send"
    /\ ~wsClosed
    /\ conn = "closed"
    /\ wlpc' = "loop"
    /\ UNCHANGED << cfgVars, path, calls, ppc, header, authFailed, cancelled, wsClosed,
                    pipesMade, closedEnds, inPending, outPending, lrpc, rbuf, b,
                    hVars, wsVars >>

\* Send returns an error: glog.Errorf, return
listenWriteSendError ==
    /\ wlpc = "send"
    /\ wsClosed \/ conn \in {"closed", "txErr"}
    /\ wlpc' = "exit"
    /\ UNCHANGED << cfgVars, path, calls, ppc, header, authFailed, cancelled, wsClosed,
                    pipesMade, closedEnds, inPending, outPending, lrpc, rbuf, b,
                    hVars, wsVars >>

\* ------------------------------------------------------------- the handler
\* the handler calls Write on its response writer: responseForwarder embeds
\* iwp, so the bytes go verbatim into the outbound pipe and Write blocks
handlerWrite(chunk) ==
    /\ hpc = "run"
    /\ Len(written) + Len(chunk) <= MaxWritten
    /\ outPending' = chunk
    /\ written' = written \o chunk
    /\ hpc' = "writing"
    /\ UNCHANGED << cfgVars, path, calls, ppc, header, authFailed, cancelled, wsClosed,
                    pipesMade, closedEnds, inPending, lrpc, wlVars, body, bodyEOF,
                    wsVars >>

\* the handler reads n bytes of its request body (irp)
handlerRead(n) ==
    /\ hpc \in {"run", "writing"}
    /\ "irp" \notin closedEnds
    /\ n \in 1..Len(inPending)
    /\ body' = body \o SubSeq(inPending, 1, n)
    /\ inPending' = SubSeq(inPending, n + 1, Len(inPending))
    /\ UNCHANGED << cfgVars, path, calls, ppc, header, authFailed, cancelled, wsClosed,
                    pipesMade, closedEnds, outPending, lrpc, wlVars, hpc, bodyEOF,
                    written, wsVars >>

\* the handler's read of its request body returns io.EOF: owp is closed
handlerReadEOF ==
    /\ hpc \in {"run", "writing"}
    /\ "irp" \notin closedEnds
    /\ ~bodyEOF
    /\ inPending = <<>>
    /\ "owp" \in closedEnds
    /\ bodyEOF' = TRUE
    /\ UNCHANGED << cfgVars, path, calls, ppc, header, authFailed, cancelled, wsClosed,
                    pipesMade, closedEnds, inPending, outPending, lrpc, wlVars, hpc,
                    body, written, wsVars >>

\* the handler closes its request body: r.Body.Close() is irp.Close()
handlerCloseBody ==
    /\ hpc = "run"
    /\ "irp" \notin closedEnds
    /\ closedEnds' = closedEnds \cup {"irp"}
    /\ UNCHANGED << cfgVars, path, calls, ppc, header, authFailed, cancelled, wsClosed,
                    pipesMade, inPending, outPending, lrpc, wlVars, hVars, wsVars >>

\* the handler returns; nothing closes iwp
handlerReturn ==
    /\ hpc = "run"
    /\ hpc' = "done"
    /\ UNCHANGED << cfgVars, path, calls, ppc, header, authFailed, cancelled, wsClosed,
                    pipesMade, closedEnds, inPending, outPending, lrpc, wlVars,
                    body, bodyEOF, written, wsVars >>

\* --------------------------------------------------------------- the client
clientSend(m) ==
    /\ path = "proxy"
    /\ conn = "open"
    /\ Len(sent) < MaxMsgs
    /\ sent' = Append(sent, m)
    /\ UNCHANGED << cfgVars, path, calls, ppc, header, authFailed, cancelled, wsClosed,
                    pipesMade, closedEnds, inPending, outPending, lrpc, wlVars, hVars,
                    conn, rcvd, clientRecv >>

\* the client closes the websocket
clientClose ==
    /\ path = "proxy"
    /\ conn = "open"
    /\ conn' = "closed"
    /\ UNCHANGED << cfgVars, path, calls, ppc, header, authFailed, cancelled, wsClosed,
                    pipesMade, closedEnds, inPending, outPending, lrpc, wlVars, hVars,
                    sent, rcvd, clientRecv >>

\* the transport fails for the server's reads ("rxErr") or sends ("txErr")
transportFail(kind) ==
    /\ path = "proxy"
    /\ conn = "open"
    /\ conn' = kind
    /\ UNCHANGED << cfgVars, path, calls, ppc, header, authFailed, cancelled, wsClosed,
                    pipesMade, closedEnds, inPending, outPending, lrpc, wlVars, hVars,
                    sent, rcvd, clientRecv >>

\* ------------------------------------------------------------ specification
Handler ==
    \/ \E chunk \in Chunks : handlerWrite(chunk)
    \/ \E n \in 1..Len(inPending) : handlerRead(n)
    \/ handlerReadEOF
    \/ handlerCloseBody
    \/ handlerReturn

Client ==
    \/ \E m \in Msgs : clientSend(m)
    \/ clientClose
    \/ \E kind \in {"rxErr", "txErr"} : transportFail(kind)

Proxy ==
    \/ proxyReadToken
    \/ proxyReadTokenFail
    \/ proxySetup
    \/ proxyCloseOwp
    \/ proxyCancel
    \/ proxyCloseWs

ListenRead ==
    \/ listenReadMessage
    \/ listenReadEOF
    \/ listenReadError
    \/ listenReadFlushed
    \/ listenReadFlushError

ListenWrite ==
    \/ listenWriteLoop
    \/ listenWriteFill
    \/ listenWriteSend
    \/ listenWriteSendLost
    \/ listenWriteSendError

Next ==
    \/ ServeHTTPDirect
    \/ ServeHTTPUpgrade
    \/ Proxy
    \/ ListenRead
    \/ ListenWrite
    \/ Handler
    \/ Client

Spec == Init /\ [][Next]_vars

\* One websocket session, for the claims about what happens in time.  The
\* request's method and headers and RewriteMethod only reach the handler's
\* request (AdaptedCall); they play no part in the streaming, so one request
\* and one RewriteMethod stand for all.
SessionInit ==
    /\ Init
    /\ r = [Method |-> "GET", Header |-> {<<"Upgrade", websocket>>}]
    /\ c.RewriteMethod = ""

SessionNext ==
    \/ ServeHTTPUpgrade
    \/ Proxy
    \/ ListenRead
    \/ ListenWrite
    \/ Handler
    \/ Client

\* the scheduler runs every goroutine that can take a step: proxy (with
\* listenRead, which it calls) and listenWrite
FairSpec ==
    /\ SessionInit
    /\ [][SessionNext]_vars
    /\ WF_vars(Proxy \/ ListenRead)
    /\ WF_vars(ListenWrite)

\* ... and a handler that keeps reading its request body
HandlerReads == (\E n \in 1..Len(inPending) : handlerRead(n)) \/ handlerReadEOF
FairSpecReading == FairSpec /\ WF_vars(HandlerReads)

\* ------------------------------------------------------ what the claims use
\* bytes read as newline-delimited records, the way the tests' read() does
\* with br.ReadBytes('\n'): the complete records, terminators dropped
RECURSIVE Lines(_)
Lines(bytes) ==
    IF IndexByte(bytes, NL) = 0 THEN <<>>
    ELSE <<SubSeq(bytes, 1, IndexByte(bytes, NL) - 1)>>
         \o Lines(SubSeq(bytes, IndexByte(bytes, NL) + 1, Len(bytes)))

RECURSIVE Flatten(_)
Flatten(ss) == IF ss = <<>> THEN <<>> ELSE Head(ss) \o Flatten(Tail(ss))

IsPrefix(s, t) == Len(s) <= Len(t) /\ SubSeq(t, 1, Len(s)) = s

\* a message with its line terminator, if it ends with one, taken off
TrimTerminator(m) ==
    IF m # <<>> /\ m[Len(m)] = NL THEN SubSeq(m, 1, Len(m) - 1) ELSE m

EqualFold(s, t) == ToLower(s) = ToLower(t)

\* the invocations made by proxy, with the response forwarder
ProxyCalls == { i \in 1..Len(calls) : calls[i].w = "respForwarder(iwp)" }

\* the messages listenRead has received: all but the token
BodyMsgs == SubSeq(sent, IF c.ReadToken THEN 2 ELSE 1, rcvd)

NoTerminator(ms) == \A i \in 1..Len(ms) : \A j \in 1..Len(ms[i]) : ms[i][j] # NL

SessionOpen == conn = "open" /\ ~wsClosed

\* ------------------------------------------------------------------ claims

\* C3: with ReadToken the handler's request carries Authorization equal to
\* "Bearer " followed by the first message the client sent; without
\* ReadToken it carries no Authorization header.
C3_Authorization ==
    \A i \in ProxyCalls :
        IF c.ReadToken
        THEN /\ sent # <<>>
             /\ \E p \in calls[i].Header : p[1] = "Authorization"
             /\ HeaderGet(calls[i].Header, "Authorization") = Bearer \o sent[1]
        ELSE \A p \in calls[i].Header : p[1] # "Authorization"

C3_Witness ==
    /\ c.ReadToken
    /\ ProxyCalls # {}
    /\ sent # <<>> /\ sent[1] = <<"a">>
    /\ \E p \in r.Header : p[1] = "Authorization"

\* C4: with ReadToken, a failed token read takes the session straight to its
\* end: no handler invocation, no loop, no conduit, and the websocket is
\* closed when proxy has returned.
C4_AuthFailure ==
    authFailed =>
        /\ c.ReadToken
        /\ calls = <<>> /\ hpc = "idle"
        /\ lrpc = "idle" /\ wlpc = "idle"
        /\ ~pipesMade /\ closedEnds = {}
        /\ ppc \in {"ret_cancel", "ret_ws", "done"}
        /\ (ppc = "done" => wsClosed)

C4_Witness == authFailed /\ ppc = "done" /\ wsClosed /\ conn = "rxErr"

\* C5: the handler of a session sees RewriteMethod as the request method when
\* it is non-empty, the original method otherwise.
C5_Method ==
    \A i \in ProxyCalls :
        calls[i].Method =
            IF c.RewriteMethod # "" THEN c.RewriteMethod ELSE r.Method

C5_Witness ==
    /\ ProxyCalls # {}
    /\ c.RewriteMethod = "POST" /\ r.Method = "PUT"
    /\ calls[1].Method = "POST"

\* C6: a request whose Upgrade header is not "websocket" in any letter case
\* gets the handler invoked once, directly, with the original writer and
\* request and no session; any other request goes to proxy and the handler
\* is never invoked with the original writer.
C6_Dispatch ==
    /\ path = "none" => calls = <<>> /\ ppc = "idle"
    /\ path = "direct" =>
          /\ ~EqualFold(HeaderGet(r.Header, "Upgrade"), websocket)
          /\ calls = << [w |-> "w", Method |-> r.Method, Header |-> r.Header,
                         Body |-> "r.Body", Proto |-> "r.Proto",
                         Cancel |-> "r.Cancel"] >>
          /\ ppc = "idle" /\ lrpc = "idle" /\ wlpc = "idle" /\ hpc = "idle"
          /\ ~pipesMade /\ rcvd = 0 /\ ~wsClosed /\ ~cancelled
    /\ path = "proxy" =>
          /\ EqualFold(HeaderGet(r.Header, "Upgrade"), websocket)
          /\ ppc # "idle"
          /\ \A i \in 1..Len(calls) : calls[i].w # "w"

C6_Witness ==
    /\ path = "proxy"
    /\ HeaderGet(r.Header, "Upgrade") # websocket
    /\ ProxyCalls # {}

\* C10: once proxy has returned, the websocket is closed and both ends of
\* both conduits are closed.
C10_AllReleased ==
    ppc = "done" => wsClosed /\ (pipesMade => closedEnds = PipeEnds)

\* C1: the client receives one message per line the handler wrote, in the
\* handler's order, nothing lost, doubled, merged or split: what the client
\* has is always the first lines of what the handler wrote, and in a session
\* whose websocket stays open every complete line written arrives.
C1_Delivered ==
    [i \in 1..Len(clientRecv) |-> TrimTerminator(clientRecv[i])] = Lines(written)

C7_NoLeakOnClientClose ==
    [](conn = "closed" /\ hpc = "writing" => <>(hpc # "writing"))

\* C9: after the handler has returned, listenWrite exits and the session
\* ends with the websocket closed, even if the client keeps the websocket
\* open and sends nothing further.
C9_HandlerReturnEndsSession ==
    [](hpc = "done" /\ SessionOpen /\ sent = <<>> =>
          <>(\/ wlpc = "exit" /\ ppc = "done" /\ wsClosed
             \/ conn # "open"
             \/ sent # <<>>))

\* ------------------------------------------------- claims C11 to C19

IsSuffix(s, t) == Len(s) <= Len(t) /\ SubSeq(t, Len(t) - Len(s) + 1, Len(t)) = s

\* the lines of the messages from..to of what the client sent, as bytes
LineBytes(from, to) ==
    Flatten([i \in 1..Len(SubSeq(sent, from, to)) |->
                SubSeq(sent, from, to)[i] \o <<NL>>])

\* position of the last line terminator of bytes, 0 when there is none
LastTerminator(bytes) ==
    IF IndexByte(bytes, NL) = 0 THEN 0
    ELSE CHOOSE i \in 1..Len(bytes) :
            bytes[i] = NL /\ \A j \in (i + 1)..Len(bytes) : bytes[j] # NL

\* exactly one line: non-empty, its only terminator its last byte
OneLine(m) == m # <<>> /\ IndexByte(m, NL) = Len(m)

\* the bytes the handler wrote that listenWrite has not passed to Send yet
Unsent == (IF wlpc = "send" THEN b ELSE <<>>) \o rbuf \o outPending

\* whether the cancellation signal of a handler's request has fired: ctx.Done()
\* fires with cancel(); Request.Cancel of the incoming server request is never
\* closed by this code
CancelFired(call) == IF call.Cancel = "ctx.Done()" THEN cancelled ELSE FALSE

\* the tasks that are in a websocket Receive
Receivers ==
    (IF ppc = "auth" THEN {"proxy"} ELSE {})
    \cup (IF lrpc = "loop" THEN {"listenRead"} ELSE {})

\* C11: the handler is invoked at most once in a session, exactly once in a
\* session that reaches streaming, and before either loop moves any data.
C11_HandlerOnce ==
    path = "proxy" =>
        /\ Len(calls) <= 1
        /\ (pipesMade => Len(calls) = 1)
        /\ (calls = <<>> =>
              /\ lrpc = "idle" /\ wlpc = "idle"
              /\ inPending = <<>> /\ body = <<>>
              /\ outPending = <<>> /\ clientRecv = <<>>
              /\ rcvd <= (IF c.ReadToken THEN 1 ELSE 0))

C11_Witness ==
    /\ Len(calls) = 1
    /\ clientRecv # <<>>
    /\ body # <<>>
    /\ ppc = "done"

\* C12: once the client has closed the websocket, the session ends: proxy
\* returns and the websocket is closed on the server side.
C12_ClientCloseEndsSession ==
    [](conn = "closed" => <>(ppc = "done" /\ wsClosed))

\* C13: once a Send of listenWrite has failed and listenWrite has exited,
\* listenRead exits, the websocket is closed and no handler Write stays
\* blocked, with nothing more from the client.
C13_SendFailureTearsDown ==
    [](wlpc = "exit" /\ conn = "txErr" =>
          <>(lrpc = "exit" /\ wsClosed /\ hpc # "writing"))

\* C14: when the session's cancel has been triggered, the cancellation signal
\* of the request given to the handler has fired.
C14_CancelReachesHandler ==
    cancelled => \A i \in ProxyCalls : CancelFired(calls[i])

\* C15: at most one task is in a websocket Receive at any time; the token is
\* received by proxy before listenRead exists, every later message by
\* listenRead; only listenWrite's Send gives the client a message.
C15_OneReceiverOneSender ==
    /\ [](Cardinality(Receivers) <= 1)
    /\ [](lrpc # "idle" => ppc # "auth")
    /\ [][rcvd' # rcvd =>
            IF lrpc = "idle" THEN ppc = "auth" /\ rcvd = 0
            ELSE lrpc = "loop" /\ ppc = "streaming"]_vars
    /\ [][clientRecv' # clientRecv => wlpc = "send" /\ wlpc' = "loop"]_vars

C15_Witness ==
    /\ c.ReadToken
    /\ rcvd = 2
    /\ lrpc = "flush"
    /\ clientRecv # <<>>

\* C16: in a session with ReadToken nothing reaches the handler before the first message
\* is received (no invocation, no conduit, no body byte), and the body is
\* made of the messages from the second on: the token is not in it.
C16_TokenBeforeBody ==
    c.ReadToken /\ path = "proxy" =>
        /\ (rcvd = 0 =>
              /\ calls = <<>> /\ hpc = "idle" /\ ~pipesMade
              /\ inPending = <<>> /\ body = <<>>)
        /\ IsPrefix(body, LineBytes(2, rcvd))
        /\ ("irp" \notin closedEnds => body \o inPending = LineBytes(2, rcvd))

C16_Witness ==
    /\ c.ReadToken
    /\ sent = << <<"a">>, <<NL>> >>
    /\ body = <<NL, NL>>

\* C17: every message listenWrite passes to Send is exactly one response
\* line: terminated, with no other terminator inside, and made of the bytes
\* the handler wrote since the previous terminator.
C17_OneLinePerMessage ==
    /\ (wlpc = "send" => OneLine(b))
    /\ \A i \in 1..Len(clientRecv) : OneLine(clientRecv[i])
    /\ IsSuffix(Unsent, written)
    /\ LET k == Len(written) - Len(Unsent)
       IN  k = 0 \/ written[k] = NL

C17_Witness ==
    /\ wlpc = "send"
    /\ b = <<NL>>
    /\ rbuf = <<NL>>
    /\ clientRecv = <<>>

\* C18: bytes the handler wrote after its last line terminator are never
\* sent: what is passed to Send and what the client has lie before it.
C18_NoUnterminatedTail ==
    /\ (wlpc = "send" =>
          Len(written) - Len(rbuf \o outPending) <= LastTerminator(written))
    /\ IsPrefix(Flatten(clientRecv), SubSeq(written, 1, LastTerminator(written)))

C18_Witness ==
    /\ hpc = "done"
    /\ written = <<NL, "a">>
    /\ clientRecv = << <<NL>> >>
    /\ rbuf = <<"a">>
    /\ wlpc = "fill"

\* The two blocking steps behind C19: listenRead receives the next message
\* only when the handler has taken the whole line of the previous one, and a
\* handler Write returns only when listenWrite has taken its bytes; the
\* inbound conduit holds at most the line of the last message, the outbound
\* one at most one Write, and listenWrite's reader, while it reads on, only
\* an unfinished line.
C19_Backpressure ==
    /\ [](lrpc = "loop" => inPending = <<>>)
    /\ [][(lrpc # "idle" /\ rcvd' # rcvd) => inPending = <<>>]_vars
    /\ [](inPending # <<>> =>
            rcvd > 0 /\ IsSuffix(inPending, sent[rcvd] \o <<NL>>))
    /\ [][(hpc = "writing" /\ hpc' # "writing") =>
            /\ outPending' = <<>>
            /\ IsSuffix(outPending, (IF wlpc' = "send" THEN b' ELSE <<>>) \o rbuf')]_vars
    /\ [](outPending # <<>> => hpc = "writing" /\ outPending \in Chunks)
    /\ [](wlpc = "fill" => IndexByte(rbuf, NL) = 0)

C19_Witness ==
    /\ lrpc = "flush"
    /\ inPending # <<>>
    /\ rcvd < Len(sent)
    /\ hpc = "writing"
    /\ wlpc = "fill"

\* C19: the conduits give backpressure and the data held between websocket
\* and handler is bounded by one message each way: listenRead is in Receive
\* only with the inbound conduit empty, which holds at most the line of the
\* last message; bytes are in the outbound conduit only during the Write
\* that brought them; and when listenWrite reads the conduit again, what it
\* still holds is left from a single handler Write.
C19_BoundedBackpressure ==
    /\ (lrpc = "loop" => inPending = <<>>)
    /\ (inPending # <<>> =>
          rcvd > 0 /\ IsSuffix(inPending, sent[rcvd] \o <<NL>>))
    /\ (outPending # <<>> => hpc = "writing" /\ outPending \in Chunks)
    /\ (wlpc = "fill" => \E ch \in Chunks : IsSuffix(rbuf, ch))

====
